---- MODULE Spec2Model ----
(***************************************************************************)
(* Model of aws-lambda/lambda_function.py: one invocation of               *)
(* lambda_handler(event, context), line by line, together with the         *)
(* upstream HTTP endpoint it calls and the clock of the request timeout.   *)
(***************************************************************************)
EXTENDS Integers, Sequences, FiniteSets, TLC

VARIABLES
    event,      \* the dict passed to lambda_handler
    caller,     \* the caller's value of that dict when the call was made
    environ,    \* os.environ
    pc,         \* the line the handler is at, or "waiting"/"returned"/"raised"
    locals,     \* the handler's local variables, by name
    log,        \* lines written by logging.warning
    sent,       \* HTTP requests handed to requests.request, in order
    elapsed,    \* seconds the pending request has waited; 0 when none is pending
    returned,   \* <<value>> once the handler has returned, else <<>>
    raised      \* <<exception>> once the handler has raised, else <<>>

vars == <<event, caller, environ, pc, locals, log, sent, elapsed, returned, raised>>

-----------------------------------------------------------------------------
(* Bounds of the model and the values inputs are drawn from.               *)

MaxParams == 2

Keys == {"agent", "actionGroup", "function", "parameters",
         "sessionAttributes", "promptSessionAttributes"}

Agents == {"a1"}
ActionGroups == {"g1", "getTxns"}
Functions == {"getTxns", "f2"}
ParamNames == {"wallet_address", "chain"}
ParamTypes == {"string"}
ParamValues == {"0xabc", " 0xAbC/../x "}
AttrMaps == {[k \in {} |-> ""], [user |-> "u1"]}
PromptAttrMaps == {[hint |-> "h1"]}
ApiKeys == {"k1"}
StatusCodes == {200, 401, 500}
Bodies == {"OK", "{\"transactions\":[]}"}

\* A parameter record; the "value" key may be absent.
ParamRecords == [name : {"wallet_address"}, type : ParamTypes, value : ParamValues]
                \cup [name : ParamNames, type : ParamTypes, value : {"0xabc"}]
                \cup [name : {"wallet_address"}, type : ParamTypes]

ParamSeqs == UNION {[1..n -> ParamRecords] : n \in 0..MaxParams}

FullEvents == [agent : Agents, actionGroup : ActionGroups, function : Functions,
               parameters : ParamSeqs, sessionAttributes : AttrMaps,
               promptSessionAttributes : PromptAttrMaps]

\* Every event: any subset of the keys may be absent.
Events == {[k \in D |-> f[k]] : f \in FullEvents, D \in SUBSET Keys}

Environs == {[k \in {} |-> ""]} \cup [SIM_API_KEY : ApiKeys]

-----------------------------------------------------------------------------
(* Python helpers.                                                         *)

None == "None"

\* d.get(k, default)
Get(d, k, default) == IF k \in DOMAIN d THEN d[k] ELSE default

\* os.getenv(k)
Getenv(k) == Get(environ, k, None)

\* name = value
Assign(name, value) == locals' = (name :> value) @@ locals

\* raise type(arg), uncaught: the invocation ends
Raise(type, arg) ==
    /\ raised' = <<[type |-> type, arg |-> arg]>>
    /\ pc' = "raised"

\* The exception parameters[0]["value"] raises, <<>> when it raises none.
FirstValueError(parameters) ==
    IF Len(parameters) = 0 THEN <<[type |-> "IndexError", arg |-> "list index out of range"]>>
    ELSE IF "value" \notin DOMAIN parameters[1] THEN <<[type |-> "KeyError", arg |-> "value"]>>
    ELSE <<>>

UrlPrefix == "https://api.sim.dune.com/v1/evm/transactions/"
LogPrefix == "Received wallet_address: "
TIMEOUT == 30

-----------------------------------------------------------------------------
Init ==
    /\ event \in Events
    /\ caller = event
    /\ environ \in Environs
    /\ pc = "L7"
    /\ locals = [k \in {} |-> ""]
    /\ log = <<>>
    /\ sent = <<>>
    /\ elapsed = 0
    /\ returned = <<>>
    /\ raised = <<>>

\* line 7: agent = event['agent']
ReadAgent ==
    /\ pc = "L7"
    /\ IF "agent" \in DOMAIN event
       THEN Assign("agent", event["agent"]) /\ pc' = "L8" /\ UNCHANGED raised
       ELSE Raise("KeyError", "agent") /\ UNCHANGED locals
    /\ UNCHANGED <<event, caller, environ, log, sent, elapsed, returned>>

\* line 8: actionGroup = event['actionGroup']
ReadActionGroup ==
    /\ pc = "L8"
    /\ IF "actionGroup" \in DOMAIN event
       THEN Assign("actionGroup", event["actionGroup"]) /\ pc' = "L9" /\ UNCHANGED raised
       ELSE Raise("KeyError", "actionGroup") /\ UNCHANGED locals
    /\ UNCHANGED <<event, caller, environ, log, sent, elapsed, returned>>

\* line 9: function = event['function']
ReadFunction ==
    /\ pc = "L9"
    /\ IF "function" \in DOMAIN event
       THEN Assign("function", event["function"]) /\ pc' = "L10" /\ UNCHANGED raised
       ELSE Raise("KeyError", "function") /\ UNCHANGED locals
    /\ UNCHANGED <<event, caller, environ, log, sent, elapsed, returned>>

\* line 10: parameters = event.get('parameters', [])
GetParameters ==
    /\ pc = "L10"
    /\ Assign("parameters", Get(event, "parameters", <<>>))
    /\ pc' = "L11"
    /\ UNCHANGED <<event, caller, environ, log, sent, elapsed, returned, raised>>

\* Variant of line 11 that checks the parameter but writes no log line.
LogWalletAddress_Silent ==
    /\ pc = "L11"
    /\ LET err == FirstValueError(locals["parameters"]) IN
       IF err = <<>>
       THEN pc' = "L13" /\ UNCHANGED raised
       ELSE Raise(err[1].type, err[1].arg)
    /\ UNCHANGED <<event, caller, environ, locals, log, sent, elapsed, returned>>

\* line 11: logging.warning(f"Received wallet_address: {parameters[0]["value"]}")
\* The argument is evaluated first; the line is written only if that succeeds.
LogWalletAddress ==
    /\ pc = "L11"
    /\ LET err == FirstValueError(locals["parameters"]) IN
       IF err = <<>>
       THEN /\ log' = Append(log, LogPrefix \o locals["parameters"][1]["value"])
            /\ pc' = "L13"
            /\ UNCHANGED raised
       ELSE /\ Raise(err[1].type, err[1].arg)
            /\ UNCHANGED log
    /\ UNCHANGED <<event, caller, environ, locals, sent, elapsed, returned>>

\* Variant of line 13 that reads the last parameter: parameters[-1]["value"]
ReadWalletAddress_Last ==
    /\ pc = "L13"
    /\ LET p == locals["parameters"] IN
       /\ Assign("wallet_address", Get(p[Len(p)], "value", None))
       /\ pc' = "L15"
    /\ UNCHANGED <<event, caller, environ, log, sent, elapsed, returned, raised>>

\* line 13: wallet_address = parameters[0]["value"]
ReadWalletAddress ==
    /\ pc = "L13"
    /\ LET err == FirstValueError(locals["parameters"]) IN
       IF err = <<>>
       THEN /\ Assign("wallet_address", locals["parameters"][1]["value"])
            /\ pc' = "L15"
            /\ UNCHANGED raised
       ELSE /\ Raise(err[1].type, err[1].arg)
            /\ UNCHANGED locals
    /\ UNCHANGED <<event, caller, environ, log, sent, elapsed, returned>>

\* line 15: url = f"https://api.sim.dune.com/v1/evm/transactions/{wallet_address}"
BuildUrl ==
    /\ pc = "L15"
    /\ Assign("url", UrlPrefix \o locals["wallet_address"])
    /\ pc' = "L16"
    /\ UNCHANGED <<event, caller, environ, log, sent, elapsed, returned, raised>>

\* Variant of line 16 with the read of event['sessionAttributes'] hoisted
\* above the request.
BuildHeaders_SessionFirst ==
    /\ pc = "L16"
    /\ IF "sessionAttributes" \in DOMAIN event
       THEN /\ Assign("headers", [XSimApiKey |-> Getenv("SIM_API_KEY")])
            /\ pc' = "L19"
            /\ UNCHANGED raised
       ELSE Raise("KeyError", "sessionAttributes") /\ UNCHANGED locals
    /\ UNCHANGED <<event, caller, environ, log, sent, elapsed, returned>>

\* line 16: headers = {"X-Sim-Api-Key": os.getenv("SIM_API_KEY")}
BuildHeaders ==
    /\ pc = "L16"
    /\ Assign("headers", [XSimApiKey |-> Getenv("SIM_API_KEY")])
    /\ pc' = "L19"
    /\ UNCHANGED <<event, caller, environ, log, sent, elapsed, returned, raised>>

\* line 19, the call: requests.request("GET", url, headers=headers, timeout=30)
SendRequest ==
    /\ pc = "L19"
    /\ sent' = Append(sent, [method |-> "GET", url |-> locals["url"],
                             headers |-> locals["headers"], timeout |-> TIMEOUT])
    /\ elapsed' = 0
    /\ pc' = "waiting"
    /\ UNCHANGED <<event, caller, environ, locals, log, returned, raised>>

\* A second passes while the handler is blocked in the request.
Tick ==
    /\ pc = "waiting"
    /\ elapsed < sent[Len(sent)].timeout
    /\ elapsed' = elapsed + 1
    /\ UNCHANGED <<event, caller, environ, pc, locals, log, sent, returned, raised>>

\* Variant of line 19 followed by response.raise_for_status().
UpstreamRespond_RaiseForStatus ==
    /\ pc = "waiting"
    /\ elapsed < sent[Len(sent)].timeout
    /\ \E status \in StatusCodes, text \in Bodies :
          /\ Assign("response", [status_code |-> status, text |-> text])
          /\ IF status >= 400
             THEN Raise("HTTPError", text)
             ELSE pc' = "L21" /\ UNCHANGED raised
    /\ elapsed' = 0
    /\ UNCHANGED <<event, caller, environ, log, sent, returned>>

\* line 19, the assignment: the upstream answers in time, with any status
\* code and any body; response = <the answer>
UpstreamRespond ==
    /\ pc = "waiting"
    /\ elapsed < sent[Len(sent)].timeout
    /\ \E status \in StatusCodes, text \in Bodies :
          Assign("response", [status_code |-> status, text |-> text])
    /\ elapsed' = 0
    /\ pc' = "L21"
    /\ UNCHANGED <<event, caller, environ, log, sent, returned, raised>>

\* line 19: the connection cannot be made; requests raises ConnectionError
UpstreamUnreachable ==
    /\ pc = "waiting"
    /\ elapsed < sent[Len(sent)].timeout
    /\ Raise("ConnectionError", locals["url"])
    /\ elapsed' = 0
    /\ UNCHANGED <<event, caller, environ, locals, log, sent, returned>>

\* Variant of line 19 whose timeout is never enforced (timeout=None).
RequestTimeout_Never ==
    /\ pc = "waiting"
    /\ elapsed >= sent[Len(sent)].timeout
    /\ UNCHANGED vars

\* Variant of line 19 that sends the request again when it times out.
RequestTimeout_Retry ==
    /\ pc = "waiting"
    /\ elapsed >= sent[Len(sent)].timeout
    /\ sent' = Append(sent, sent[Len(sent)])
    /\ elapsed' = 0
    /\ UNCHANGED <<event, caller, environ, pc, locals, log, returned, raised>>

\* line 19: no answer within timeout seconds; requests raises Timeout
RequestTimeout ==
    /\ pc = "waiting"
    /\ elapsed >= sent[Len(sent)].timeout
    /\ Raise("Timeout", locals["url"])
    /\ elapsed' = 0
    /\ UNCHANGED <<event, caller, environ, locals, log, sent, returned>>

\* Variant of lines 21-25 that inspects the status code.
BuildResponseBody_StatusAware ==
    /\ pc = "L21"
    /\ Assign("response_body",
              [TEXT |-> [body |-> IF locals["response"].status_code = 200
                                  THEN locals["response"].text
                                  ELSE "upstream error"]])
    /\ pc' = "L27"
    /\ UNCHANGED <<event, caller, environ, log, sent, elapsed, returned, raised>>

\* lines 21-25: response_body = {'TEXT': {'body': response.text}}
BuildResponseBody ==
    /\ pc = "L21"
    /\ Assign("response_body", [TEXT |-> [body |-> locals["response"].text]])
    /\ pc' = "L27"
    /\ UNCHANGED <<event, caller, environ, log, sent, elapsed, returned, raised>>

\* Variant of lines 27-33 with the two identifiers exchanged.
BuildFunctionResponse_Swapped ==
    /\ pc = "L27"
    /\ Assign("function_response",
              [actionGroup |-> event["function"],
               function |-> event["actionGroup"],
               functionResponse |-> [responseBody |-> locals["response_body"]]])
    /\ pc' = "L35"
    /\ UNCHANGED <<event, caller, environ, log, sent, elapsed, returned, raised>>

\* lines 27-33: function_response = {'actionGroup': event['actionGroup'], ...}
BuildFunctionResponse ==
    /\ pc = "L27"
    /\ IF "actionGroup" \notin DOMAIN event
       THEN Raise("KeyError", "actionGroup") /\ UNCHANGED locals
       ELSE IF "function" \notin DOMAIN event
       THEN Raise("KeyError", "function") /\ UNCHANGED locals
       ELSE /\ Assign("function_response",
                      [actionGroup |-> event["actionGroup"],
                       function |-> event["function"],
                       functionResponse |->
                           [responseBody |-> locals["response_body"]]])
            /\ pc' = "L35"
            /\ UNCHANGED raised
    /\ UNCHANGED <<event, caller, environ, log, sent, elapsed, returned>>

\* Variant of line 35 that is defensive: event.get('sessionAttributes', {})
ReadSessionAttributes_Default ==
    /\ pc = "L35"
    /\ Assign("session_attributes", Get(event, "sessionAttributes", [k \in {} |-> ""]))
    /\ pc' = "L36"
    /\ UNCHANGED <<event, caller, environ, log, sent, elapsed, returned, raised>>

\* line 35: session_attributes = event['sessionAttributes']
ReadSessionAttributes ==
    /\ pc = "L35"
    /\ IF "sessionAttributes" \in DOMAIN event
       THEN /\ Assign("session_attributes", event["sessionAttributes"])
            /\ pc' = "L36"
            /\ UNCHANGED raised
       ELSE Raise("KeyError", "sessionAttributes") /\ UNCHANGED locals
    /\ UNCHANGED <<event, caller, environ, log, sent, elapsed, returned>>

\* line 36: prompt_session_attributes = event['promptSessionAttributes']
ReadPromptSessionAttributes ==
    /\ pc = "L36"
    /\ IF "promptSessionAttributes" \in DOMAIN event
       THEN /\ Assign("prompt_session_attributes", event["promptSessionAttributes"])
            /\ pc' = "L38"
            /\ UNCHANGED raised
       ELSE Raise("KeyError", "promptSessionAttributes") /\ UNCHANGED locals
    /\ UNCHANGED <<event, caller, environ, log, sent, elapsed, returned>>

\* Variant of lines 38-43 with the two attribute maps exchanged.
BuildActionResponse_Swapped ==
    /\ pc = "L38"
    /\ Assign("action_response",
              [messageVersion |-> "1.0",
               response |-> locals["function_response"],
               sessionAttributes |-> locals["prompt_session_attributes"],
               promptSessionAttributes |-> locals["session_attributes"]])
    /\ pc' = "L45"
    /\ UNCHANGED <<event, caller, environ, log, sent, elapsed, returned, raised>>

\* lines 38-43: action_response = {'messageVersion': '1.0', ...}
BuildActionResponse ==
    /\ pc = "L38"
    /\ Assign("action_response",
              [messageVersion |-> "1.0",
               response |-> locals["function_response"],
               sessionAttributes |-> locals["session_attributes"],
               promptSessionAttributes |-> locals["prompt_session_attributes"]])
    /\ pc' = "L45"
    /\ UNCHANGED <<event, caller, environ, log, sent, elapsed, returned, raised>>

\* line 45: return action_response
Return ==
    /\ pc = "L45"
    /\ returned' = <<locals["action_response"]>>
    /\ pc' = "returned"
    /\ UNCHANGED <<event, caller, environ, locals, log, sent, elapsed, raised>>

\* The steps the handler, the requests library and the clock take.
HandlerStep ==
    \/ ReadAgent
    \/ ReadActionGroup
    \/ ReadFunction
    \/ GetParameters
    \/ LogWalletAddress
    \/ ReadWalletAddress
    \/ BuildUrl
    \/ BuildHeaders
    \/ SendRequest
    \/ Tick
    \/ RequestTimeout
    \/ BuildResponseBody
    \/ BuildFunctionResponse
    \/ ReadSessionAttributes
    \/ ReadPromptSessionAttributes
    \/ BuildActionResponse
    \/ Return

\* The steps of the upstream endpoint and the network.
UpstreamStep ==
    \/ UpstreamRespond
    \/ UpstreamUnreachable

Next == HandlerStep \/ UpstreamStep

Spec == Init /\ [][Next]_vars

\* The interpreter runs the handler to its end and the clock advances; the
\* upstream is under no obligation to answer.
FairSpec == Spec /\ WF_vars(HandlerStep)

-----------------------------------------------------------------------------
(* Vocabulary of the properties.                                           *)

Ended == pc \in {"returned", "raised"}

\* The upstream has answered the request.
Answered == "response" \in DOMAIN locals

HasSessionKeys(e) == {"sessionAttributes", "promptSessionAttributes"} \subseteq DOMAIN e

\* A key read by lines 7-13 is missing: agent, actionGroup, function or
\* parameters[0]["value"].
EarlyMissing(e) ==
    \/ {"agent", "actionGroup", "function"} \cap DOMAIN e # {"agent", "actionGroup", "function"}
    \/ FirstValueError(Get(e, "parameters", <<>>)) # <<>>

\* The exceptions lines 7-13 raise for a malformed event.
InputErrors ==
    {[type |-> "KeyError", arg |-> k] : k \in {"agent", "actionGroup", "function", "value"}}
    \cup {[type |-> "IndexError", arg |-> "list index out of range"]}

\* The exceptions lines 35-36 raise.
SessionErrors ==
    {[type |-> "KeyError", arg |-> k] : k \in {"sessionAttributes", "promptSessionAttributes"}}

TextBody(r) == r.response.functionResponse.responseBody.TEXT.body

-----------------------------------------------------------------------------
\* C1: whenever lambda_handler returns, response.actionGroup and
\* response.function of the returned value equal the actionGroup and function
\* of the event it was called with, whatever the upstream answered.
C1_EchoesActionGroupAndFunction ==
    pc = "returned" =>
        /\ returned[1].response.actionGroup = caller["actionGroup"]
        /\ returned[1].response.function = caller["function"]

C1_Witness ==
    /\ pc = "returned"
    /\ caller["actionGroup"] = "getTxns"
    /\ caller["function"] = "f2"
    /\ locals["response"].status_code = 500

\* C2: whenever lambda_handler returns, the returned sessionAttributes and
\* promptSessionAttributes equal those of the event it was called with, each
\* its own, and the event still has the value the caller passed.
C2_SessionAttributesPassThrough ==
    pc = "returned" =>
        /\ returned[1].sessionAttributes = caller["sessionAttributes"]
        /\ returned[1].promptSessionAttributes = caller["promptSessionAttributes"]
        /\ event = caller

C2_Witness ==
    /\ pc = "returned"
    /\ caller["sessionAttributes"] = [user |-> "u1"]
    /\ caller["promptSessionAttributes"] = [hint |-> "h1"]
    /\ locals["response"].text = "OK"

\* C3: every request sent is a GET whose URL is the fixed prefix followed by
\* exactly parameters[0].value of the event: a function of that value alone,
\* so neither later parameters nor the parameter's name or type enter it.
C3_UrlIsPrefixThenFirstValue ==
    \A i \in 1..Len(sent) :
        /\ sent[i].method = "GET"
        /\ sent[i].url = UrlPrefix \o caller["parameters"][1]["value"]

C3_Witness ==
    /\ Len(sent) = 1
    /\ Len(caller["parameters"]) = 2
    /\ caller["parameters"][1] = [name |-> "chain", type |-> "string", value |-> "0xabc"]
    /\ caller["parameters"][2] = [name |-> "wallet_address", type |-> "string", value |-> " 0xAbC/../x "]
    /\ sent[1].url = UrlPrefix \o "0xabc"

\* C4 as stated: once the upstream has answered, whatever the status code,
\* the invocation ends by returning a value whose TEXT body is the upstream
\* text and whose messageVersion is "1.0".
C4_AnsweredReturnsBody ==
    (Ended /\ Answered) =>
        /\ pc = "returned"
        /\ TextBody(returned[1]) = locals["response"].text
        /\ returned[1].messageVersion = "1.0"

\* C4 amended: the same, for events that carry sessionAttributes and
\* promptSessionAttributes.
C4_AnsweredReturnsBodyGivenSessionKeys ==
    (Ended /\ Answered /\ HasSessionKeys(caller)) =>
        /\ pc = "returned"
        /\ TextBody(returned[1]) = locals["response"].text
        /\ returned[1].messageVersion = "1.0"

C4_Witness ==
    /\ pc = "returned"
    /\ locals["response"] = [status_code |-> 401, text |-> "{\"transactions\":[]}"]
    /\ TextBody(returned[1]) = "{\"transactions\":[]}"

\* C5 as stated: when the upstream answers with a status outside 200..299,
\* lambda_handler does not return.
C5_NonSuccessStatusNeverReturns ==
    (Answered /\ locals["response"].status_code \notin 200..299) => pc # "returned"

\* C5 amended: the status code is not inspected.  After an answer with a
\* status outside 200..299 the invocation ends by returning the upstream
\* text exactly when the event carries sessionAttributes and
\* promptSessionAttributes, and otherwise by the KeyError of the missing key.
C5_NonSuccessStatusIsPassedThrough ==
    (Ended /\ Answered /\ locals["response"].status_code \notin 200..299) =>
        /\ pc = "returned" <=> HasSessionKeys(caller)
        /\ pc = "returned" => TextBody(returned[1]) = locals["response"].text
        /\ pc = "raised" => raised[1] \in SessionErrors

C5_Witness ==
    /\ pc = "returned"
    /\ locals["response"].status_code = 500
    /\ TextBody(returned[1]) = "OK"

\* C6: when the event has no parameters key or an empty parameters list, or
\* lacks agent, actionGroup, function or sessionAttributes, lambda_handler
\* never returns a value; if the invocation has ended, it ended by raising.
C6_MalformedEventNeverReturns ==
    (\/ Get(caller, "parameters", <<>>) = <<>>
     \/ \E k \in {"agent", "actionGroup", "function", "sessionAttributes"} :
            k \notin DOMAIN caller)
    => /\ returned = <<>>
       /\ pc # "returned"
       /\ Ended => Len(raised) = 1

C6_Witness ==
    /\ pc = "raised"
    /\ DOMAIN caller = Keys
    /\ caller["parameters"] = <<>>
    /\ raised[1].type = "IndexError"

\* C7: every invocation eventually returns or raises, and a request that has
\* waited the whole timeout ends in the Timeout exception.
C7_EventuallyEnds ==
    /\ <>Ended
    /\ (pc = "waiting" /\ elapsed >= TIMEOUT) ~> (pc = "raised" /\ raised[1].type = "Timeout")

C7_Witness ==
    /\ pc = "raised"
    /\ raised[1].type = "Timeout"
    /\ DOMAIN caller = Keys

\* C8 as stated: in every invocation that ends in failure, the log line has
\* been written before the failure.
C8_LoggedBeforeEveryFailure ==
    pc = "raised" => Len(log) = 1

\* C8 amended: the log line, carrying parameters[0].value, is written before
\* the request is sent, so before every failure of the request and of the
\* lines after it; the failures of lines 7-11 (agent, actionGroup, function
\* or parameters[0].value missing) happen with no log line written.
C8_LoggedBeforeRequestNotBeforeInputFailure ==
    /\ Len(sent) > 0 =>
          log = <<LogPrefix \o caller["parameters"][1]["value"]>>
    /\ pc = "raised" =>
          IF raised[1] \in InputErrors THEN log = <<>> ELSE Len(log) = 1

C8_Witness ==
    /\ pc = "raised"
    /\ raised[1].type = "ConnectionError"
    /\ log = <<LogPrefix \o " 0xAbC/../x ">>

\* C9: an invocation sends at most one request, and exactly one when it
\* returns; a request that failed or timed out is not sent again.
C9_AtMostOneRequest ==
    /\ Len(sent) <= 1
    /\ pc = "returned" => Len(sent) = 1
    /\ (pc = "raised" /\ raised[1].type \in {"Timeout", "ConnectionError"}) => Len(sent) = 1

C9_Witness ==
    /\ pc = "raised"
    /\ raised[1].type = "Timeout"
    /\ Len(sent) = 1
    /\ ~HasSessionKeys(caller)

====
